---- MODULE Spec2Model ----
(***************************************************************************)
(* Model of track-doc-changes.py: the documentation change tracker.        *)
(* Text is modelled as TLA+ strings, read character by character (Len,     *)
(* SubSeq, \o), so that splitting, stripping, pattern matching and string  *)
(* comparison are computed the way the Python code computes them.          *)
(***************************************************************************)
EXTENDS Integers, Sequences, FiniteSets, TLC

VARIABLES
    args,                 \* argparse result of main (l.529)
    today,                \* datetime.now() as <<year, month, day>> once read (l.550)
    git_stdout,           \* what the git log command of the history query printed
    tree,                 \* the entry files found under src/content/changelog/
    pc,                   \* main's position
    start_date, end_date, \* strftime('%Y-%m-%d') of the range (l.579-580)
    tracked_products,     \* main's tracked_products: directory -> display name
    products_to_track,    \* main's products_to_track
    query_paths,          \* product_paths handed to get_commits_in_range
    commits,              \* main's commits
    ci,                   \* number of commits the organizing loop has handled
    commits_by_product,   \* main's commits_by_product
    changelog_by_product, \* main's changelog_by_product
    summary,              \* lines of generate_summary's result
    changelog_summary,    \* lines of generate_changelog_summary's result
    effects,              \* what the run has done to the outside world
    file,                 \* the file a lone parse_changelog_frontmatter call is given
    parse_result,         \* what that call returned: <<title, date>>
    ret                   \* main's return value ("none" while running)

vars == <<args, today, git_stdout, tree, pc, start_date, end_date,
          tracked_products, products_to_track, query_paths, commits, ci,
          commits_by_product, changelog_by_product, summary,
          changelog_summary, effects, file, parse_result, ret>>

None == "<None>"

----------------------------------------------------------------------------
(* Python str operations *)

Ch(s, i) == SubSeq(s, i, i)

StartsWith(s, p) == Len(s) >= Len(p) /\ SubSeq(s, 1, Len(p)) = p

EndsWith(s, p) == Len(s) >= Len(p) /\ SubSeq(s, Len(s) - Len(p) + 1, Len(s)) = p

OccursAt(s, p, i) == i >= 1 /\ i + Len(p) - 1 <= Len(s) /\ SubSeq(s, i, i + Len(p) - 1) = p

Drop(s, n) == SubSeq(s, n + 1, Len(s))

Whitespace == {" ", "\t", "\n", "\r"}

Digits == {"0", "1", "2", "3", "4", "5", "6", "7", "8", "9"}

UpperCase == "ABCDEFGHIJKLMNOPQRSTUVWXYZ"

LowerCase == "abcdefghijklmnopqrstuvwxyz"

\* the characters of the model's texts in code point order, for str comparison
CodePoints == "\t\n\r !\"#'()+-./0123456789:<=>ABCDEFGHIJKLMNOPQRSTUVWXYZ_abcdefghijklmnopqrstuvwxyz|"

Ord(c) == CHOOSE i \in 1..Len(CodePoints) : Ch(CodePoints, i) = c

RECURSIVE StrLeq(_, _)
\* a <= b on Python str: lexicographic by code point, a prefix sorts first
StrLeq(a, b) ==
    IF a = "" THEN TRUE
    ELSE IF b = "" THEN FALSE
    ELSE IF Ch(a, 1) = Ch(b, 1) THEN StrLeq(Drop(a, 1), Drop(b, 1))
    ELSE Ord(Ch(a, 1)) < Ord(Ch(b, 1))

LowerCh(c) ==
    IF \E i \in 1..Len(UpperCase) : Ch(UpperCase, i) = c
    THEN Ch(LowerCase, CHOOSE i \in 1..Len(UpperCase) : Ch(UpperCase, i) = c)
    ELSE c

RECURSIVE Lower(_)
Lower(s) == IF s = "" THEN "" ELSE LowerCh(Ch(s, 1)) \o Lower(Drop(s, 1))

RECURSIVE LStrip(_)
LStrip(s) == IF s # "" /\ Ch(s, 1) \in Whitespace THEN LStrip(Drop(s, 1)) ELSE s

RECURSIVE RStrip(_)
RStrip(s) ==
    IF s # "" /\ Ch(s, Len(s)) \in Whitespace THEN RStrip(SubSeq(s, 1, Len(s) - 1)) ELSE s

Strip(s) == RStrip(LStrip(s))

\* index of the first occurrence of p in s at or after i, 0 when there is none
RECURSIVE Find(_, _, _)
Find(s, p, i) ==
    IF i + Len(p) - 1 > Len(s) THEN 0
    ELSE IF OccursAt(s, p, i) THEN i
    ELSE Find(s, p, i + 1)

RECURSIVE SplitMax(_, _, _)
\* s.split(sep, maxsplit): at most maxsplit cuts, leftmost first (-1: no limit)
SplitMax(s, sep, maxsplit) ==
    LET i == Find(s, sep, 1) IN
    IF maxsplit = 0 \/ i = 0 THEN <<s>>
    ELSE <<SubSeq(s, 1, i - 1)>> \o
         SplitMax(Drop(s, i + Len(sep) - 1), sep,
                  IF maxsplit < 0 THEN maxsplit ELSE maxsplit - 1)

Split(s, sep) == SplitMax(s, sep, -1)

RECURSIVE Join(_, _)
Join(parts, sep) ==
    IF parts = <<>> THEN ""
    ELSE IF Len(parts) = 1 THEN parts[1]
    ELSE parts[1] \o sep \o Join(Tail(parts), sep)

RECURSIVE Replace(_, _, _)
\* s.replace(old, new): every non-overlapping occurrence, leftmost first
Replace(s, old, new) ==
    LET i == Find(s, old, 1) IN
    IF i = 0 THEN s
    ELSE SubSeq(s, 1, i - 1) \o new \o Replace(Drop(s, i + Len(old) - 1), old, new)

Range(f) == {f[x] : x \in DOMAIN f}

----------------------------------------------------------------------------
(* Classification tables *)

CATEGORIES ==
    "app_perf" :> [name |-> "Application Performance", products |->
           "argo-smart-routing" :> "Argo Smart Routing"
        @@ "automatic-platform-optimization" :> "Automatic Platform Optimization"
        @@ "cache" :> "Cache"
        @@ "cloudflare-for-platforms" :> "Cloudflare for SaaS"
        @@ "data-localization" :> "Data Localization"
        @@ "dns" :> "DNS"
        @@ "health-checks" :> "Health Checks"
        @@ "load-balancing" :> "Load Balancing"
        @@ "logs" :> "Logs"
        @@ "rules" :> "Rules"
        @@ "speed" :> "Speed"
        @@ "ssl" :> "SSL/TLS"
        @@ "version-management" :> "Version Management"
        @@ "1.1.1.1" :> "1.1.1.1"]
    @@ "app_sec" :> [name |-> "Application Security", products |->
           "api-shield" :> "API Shield"
        @@ "bots" :> "Bot Management"
        @@ "cloudflare-challenges" :> "Cloudflare Challenges"
        @@ "ddos-protection" :> "DDoS Protection"
        @@ "firewall" :> "Firewall"
        @@ "log-explorer" :> "Log Explorer"
        @@ "page-shield" :> "Page Shield"
        @@ "ruleset-engine" :> "Ruleset Engine"
        @@ "security" :> "Security"
        @@ "security-center" :> "Security Center"
        @@ "smart-shield" :> "Smart Shield"
        @@ "turnstile" :> "Turnstile"
        @@ "waf" :> "WAF"
        @@ "waiting-room" :> "Waiting Room"]
    @@ "cf1" :> [name |-> "Cloudflare One", products |->
           "browser-rendering" :> "Browser Rendering"
        @@ "byoip" :> "BYOIP"
        @@ "china-network" :> "China Network"
        @@ "client-ip-geolocation" :> "Client IP Geolocation"
        @@ "cloudflare-one" :> "Cloudflare One"
        @@ "email-security" :> "Email Security"
        @@ "magic-cloud-networking" :> "Magic Cloud Networking"
        @@ "magic-firewall" :> "Magic Firewall"
        @@ "magic-network-monitoring" :> "Magic Network Monitoring"
        @@ "magic-transit" :> "Magic Transit"
        @@ "magic-wan" :> "Magic WAN"
        @@ "network" :> "Network"
        @@ "network-error-logging" :> "Network Error Logging"
        @@ "network-interconnect" :> "Network Interconnect"
        @@ "spectrum" :> "Spectrum"
        @@ "warp-client" :> "WARP Client"]
    @@ "platform" :> [name |-> "Platform", products |->
           "analytics" :> "Analytics"
        @@ "billing" :> "Billing"
        @@ "notifications" :> "Notifications"
        @@ "pulumi" :> "Pulumi"
        @@ "radar" :> "Radar"
        @@ "registrar" :> "Registrar"
        @@ "tenant" :> "Tenant"
        @@ "time-services" :> "Time Services"]
    @@ "dev_plat" :> [name |-> "Developer Platform", products |->
           "agents" :> "Agents"
        @@ "ai-crawl-control" :> "AI Crawl Control"
        @@ "ai-gateway" :> "AI Gateway"
        @@ "ai-search" :> "AI Search"
        @@ "containers" :> "Containers"
        @@ "d1" :> "D1"
        @@ "dmarc-management" :> "DMARC Management"
        @@ "durable-objects" :> "Durable Objects"
        @@ "email-routing" :> "Email Routing"
        @@ "google-tag-gateway" :> "Google Tag Gateway"
        @@ "hyperdrive" :> "Hyperdrive"
        @@ "images" :> "Images"
        @@ "kv" :> "KV"
        @@ "pages" :> "Pages"
        @@ "pipelines" :> "Pipelines"
        @@ "queues" :> "Queues"
        @@ "r2" :> "R2"
        @@ "r2-sql" :> "R2 SQL"
        @@ "realtime" :> "Realtime"
        @@ "sandbox" :> "Sandbox"
        @@ "secrets-store" :> "Secrets Store"
        @@ "stream" :> "Stream"
        @@ "vectorize" :> "Vectorize"
        @@ "web3" :> "Web3"
        @@ "workers" :> "Workers"
        @@ "workers-ai" :> "Workers AI"
        @@ "workers-vpc" :> "Workers VPC"
        @@ "workflows" :> "Workflows"
        @@ "zaraz" :> "Zaraz"]

COMMON_PRODUCTS ==
       "support" :> "Support"
    @@ "fundamentals" :> "Fundamentals"
    @@ "terraform" :> "Terraform"

CHANGELOG_TO_DOCS_MAP ==
       "access" :> "cloudflare-one"
    @@ "audit-logs" :> "fundamentals"
    @@ "browser-isolation" :> "cloudflare-one"
    @@ "casb" :> "cloudflare-one"
    @@ "cloudflare-tunnel" :> "cloudflare-one"
    @@ "dex" :> "cloudflare-one"
    @@ "dlp" :> "cloudflare-one"
    @@ "email-security-cf1" :> "cloudflare-one"
    @@ "gateway" :> "cloudflare-one"
    @@ "risk-score" :> "cloudflare-one"
    @@ "sdk" :> "terraform"
    @@ "workers-for-platforms" :> "cloudflare-for-platforms"
    @@ "zero-trust-warp" :> "warp-client"

\* dict.get(key, default)
Get(d, key, default) == IF key \in DOMAIN d THEN d[key] ELSE default

\* the order CATEGORIES.values() is walked in
CategoryOrder == <<"app_perf", "app_sec", "cf1", "platform", "dev_plat">>

RECURSIVE UpdateAll(_, _)
\* products.update(...) for each category key of cats that is in CATEGORIES
UpdateAll(products, cats) ==
    IF cats = <<>> THEN products
    ELSE UpdateAll(IF Head(cats) \in DOMAIN CATEGORIES
                   THEN CATEGORIES[Head(cats)].products @@ products
                   ELSE products,
                   Tail(cats))

get_tracked_products(categories) ==
    IF categories = None
    THEN UpdateAll(COMMON_PRODUCTS, CategoryOrder)
    ELSE UpdateAll(COMMON_PRODUCTS, categories)

----------------------------------------------------------------------------
(* Regular expressions of the trivial / significant classifier *)

WordChars == {Ch(LowerCase, i) : i \in 1..Len(LowerCase)}
             \cup {Ch(UpperCase, i) : i \in 1..Len(UpperCase)}
             \cup Digits \cup {"_"}

IsWordAt(s, i) == i >= 1 /\ i <= Len(s) /\ Ch(s, i) \in WordChars

\* \b between the characters i-1 and i of s
Boundary(s, i) == IsWordAt(s, i - 1) # IsWordAt(s, i)

\* \bphrase\b matches s with the phrase starting at i
PhraseAt(s, phrase, i) ==
    /\ OccursAt(s, phrase, i)
    /\ Boundary(s, i)
    /\ Boundary(s, i + Len(phrase))

\* re.search(r'\bphrase\b', s)
SearchPhrase(s, phrase) == \E i \in 1..Len(s) : PhraseAt(s, phrase, i)

\* re.search(r'\bfirst\b.*\bsecond\b', s), s without a newline
SearchPhrases(s, first, second) ==
    \E i \in 1..Len(s) : \E j \in (i + Len(first))..Len(s) :
        PhraseAt(s, first, i) /\ PhraseAt(s, second, j)

\* each pattern as <<phrase>> for \bphrase\b or <<a, b>> for \ba\b.*\bb\b
TRIVIAL_PATTERNS == <<
    <<"typo">>, <<"fix typo">>, <<"formatting">>, <<"whitespace">>, <<"minor">>,
    <<"update link">>, <<"broken link">>, <<"fix link">>, <<"style">>,
    <<"indentation">>, <<"punctuation">>, <<"spelling">>, <<"dash button">>,
    <<"dashbutton">> >>

SIGNIFICANT_PATTERNS == <<
    <<"new feature">>, <<"add", "section">>, <<"new", "guide">>, <<"update", "api">>,
    <<"deprecate">>, <<"announce">>, <<"release">>, <<"major">> >>

\* re.search(pattern, lowered, re.IGNORECASE) on lower-cased text: the patterns
\* are lower case, so that ignoring case adds no match
Search(pattern, lowered) ==
    IF Len(pattern) = 1 THEN SearchPhrase(lowered, pattern[1])
    ELSE SearchPhrases(lowered, pattern[1], pattern[2])

is_trivial_change(commit_subject) ==
    LET subject_lower == Lower(commit_subject) IN
    \E k \in DOMAIN TRIVIAL_PATTERNS : Search(TRIVIAL_PATTERNS[k], subject_lower)

is_significant_change(commit_subject) ==
    LET subject_lower == Lower(commit_subject) IN
    \E k \in DOMAIN SIGNIFICANT_PATTERNS : Search(SIGNIFICANT_PATTERNS[k], subject_lower)

\* the least i such that s from i on matches \s*\(#\d+\)\s*$, 0 when none does
RECURSIVE SkipWhile(_, _, _)
SkipWhile(s, i, set) ==
    IF i <= Len(s) /\ Ch(s, i) \in set THEN SkipWhile(s, i + 1, set) ELSE i

PrSuffixAt(s, i) ==
    LET a == SkipWhile(s, i, Whitespace)
        b == SkipWhile(s, a + 2, Digits)
        c == SkipWhile(s, b + 1, Whitespace)
    IN  /\ OccursAt(s, "(#", a)
        /\ b > a + 2
        /\ OccursAt(s, ")", b)
        /\ c = Len(s) + 1

clean_commit_subject(subject) ==
    LET hits == {i \in 1..Len(subject) : PrSuffixAt(subject, i)}
        cut == IF hits = {} THEN subject
               ELSE SubSeq(subject, 1, (CHOOSE i \in hits : \A j \in hits : i <= j) - 1)
    IN Strip(cut)

----------------------------------------------------------------------------
(* Paths *)

DocsRoot == "src/content/docs/"

ChangelogRoot == "src/content/changelog/"

\* group(1) of re.match(root + r'([^/]+)/', file_path), None without a match
FirstDir(file_path, root) ==
    LET rest == Drop(file_path, Len(root))
        slash == Find(rest, "/", 1)
    IN IF StartsWith(file_path, root) /\ slash > 1
       THEN SubSeq(rest, 1, slash - 1)
       ELSE None

\* as extract_product_from_path, but the name is looked up in the table of all
\* products instead of the table of the run
extract_product_from_path_AnyTable(file_path, tracked) ==
    LET product_dir == FirstDir(file_path, DocsRoot) IN
    IF product_dir # None THEN Get(get_tracked_products(None), product_dir, None) ELSE None

extract_product_from_path(file_path, tracked) ==
    LET product_dir == FirstDir(file_path, DocsRoot) IN
    IF product_dir # None THEN Get(tracked, product_dir, None) ELSE None

extract_changelog_product(file_path, tracked) ==
    LET changelog_dir == FirstDir(file_path, ChangelogRoot) IN
    IF changelog_dir # None
    THEN Get(tracked, Get(CHANGELOG_TO_DOCS_MAP, changelog_dir, changelog_dir), None)
    ELSE None

BASE_URL == "https://developers.cloudflare.com"

\* re.sub(r'\.(mdx?|html)$', '', path)
StripDocExt(path) ==
    IF EndsWith(path, ".mdx") THEN SubSeq(path, 1, Len(path) - 4)
    ELSE IF EndsWith(path, ".md") THEN SubSeq(path, 1, Len(path) - 3)
    ELSE IF EndsWith(path, ".html") THEN SubSeq(path, 1, Len(path) - 5)
    ELSE path

file_to_url(file_path) ==
    IF ~StartsWith(file_path, DocsRoot) THEN None
    ELSE LET path == StripDocExt(Replace(file_path, DocsRoot, ""))
             short == IF EndsWith(path, "/index")
                      THEN SubSeq(path, 1, Len(path) - 6) ELSE path
         IN BASE_URL \o "/" \o short \o "/"

changelog_file_to_url(file_path) ==
    LET rest == Drop(file_path, Len(ChangelogRoot))
        slash == Find(rest, "/", 1)
        name == Drop(rest, slash)
        stem == IF EndsWith(name, ".mdx") THEN SubSeq(name, 1, Len(name) - 4)
                ELSE IF EndsWith(name, ".md") THEN SubSeq(name, 1, Len(name) - 3)
                ELSE None
    IN IF ~StartsWith(file_path, ChangelogRoot) THEN None
       ELSE IF slash > 1 /\ stem # None /\ stem # ""
            THEN BASE_URL \o "/changelog/" \o Replace(Lower(stem), ".", "") \o "/"
            ELSE None

----------------------------------------------------------------------------
(* The repository: the external collaborators' data *)

\* the commits git can report, by hash: subject (%s), committer date (%ci),
\* committer name (%cn) and the paths git diff-tree names
RepoCommits ==
       "c1" :> [subject |-> "Add caching section to the guide (#101)",
                date |-> "2026-01-20 10:00:00 +0000", author |-> "Ann",
                files |-> <<"src/content/docs/cache/index.mdx",
                            "src/content/docs/cache/about.mdx",
                            "src/content/docs/cache/how-to/index.mdx",
                            "src/content/docs/cache/how-to/purge.md",
                            "src/content/docs/cache/reference.html">>]
    @@ "c2" :> [subject |-> "Fix typo in release notes",
                date |-> "2026-01-18 09:30:00 +0000", author |-> "Bo",
                files |-> <<"README.md",
                            "src/content/docs/dns/zone.mdx",
                            "src/content/docs/cache/about.mdx">>]
    @@ "c3" :> [subject |-> "DNS records | minor update",
                date |-> "2026-01-12 17:05:00 +0000", author |-> "Cy",
                files |-> <<"src/content/docs/dns/records.mdx",
                            "src/content/changelog/cache/2026-01-12-records.mdx">>]
    @@ "c4" :> [subject |-> "Describe the bogus product",
                date |-> "2026-01-09 08:00:00 +0000", author |-> "Di",
                files |-> <<"src/content/docs/bogus/index.mdx">>]
    @@ "c5" :> [subject |-> "Update WARP and DNS docs",
                date |-> "2026-01-03 12:00:00 +0000", author |-> "Ed",
                files |-> <<"src/content/docs/warp-client/index.mdx",
                            "src/content/docs/dns/index.mdx",
                            "src/content/docs/dns/zone.mdx",
                            "src/content/docs/support/faq.md">>]

\* lines git may print that are no commit record (fewer than 4 fields)
NoiseLines == {"warning: refname is ambiguous", "c9|Half a record"}

\* the entry files the changelog tree may hold: directory, file name, content
ChangelogFiles == {
    [dir |-> "access", name |-> "2026-01-01-Some.Entry.mdx",
     content |-> "---\ntitle: \"Some Entry\"\ndate: 2026-01-01\n---\nText"],
    [dir |-> "cache", name |-> "2026-01-31-edge.mdx",
     content |-> "---\ntitle: Edge\ndate: 2026-01-31\n---\ndate: 2026-01-02"],
    [dir |-> "dns", name |-> "2026-02-01-next.mdx",
     content |-> "date: 2026-01-15\n---\ndate: 2026-02-01\n---\n"],
    [dir |-> "bogus", name |-> "2026-01-10-bogus.mdx",
     content |-> "---\ntitle: Bogus\ndate: 2026-01-10\n---\n"],
    [dir |-> "cache", name |-> "2026-01-11-undated.mdx",
     content |-> "---\ntitle: 'Undated'\n---\n"],
    [dir |-> "dns", name |-> "2026-01-20-notes.md",
     content |-> "---\ntitle: Notes\ndate: 2026-01-20\n---\n"],
    [dir |-> "terraform", name |-> "2025-12-31-last-year.mdx",
     content |-> "---\ndate: 2025-12-31\n---\n"]}

\* the sequences over S without repetition, of length at most n
RECURSIVE DistinctSeqs(_, _)
DistinctSeqs(S, n) ==
    IF n = 0 THEN {<<>>}
    ELSE LET shorter == DistinctSeqs(S, n - 1) IN
         shorter \cup {Append(q, x) : <<q, x>> \in
                          {<<q, x>> \in shorter \X S : x \notin Range(q)}}

----------------------------------------------------------------------------
(* History Query *)

\* --pretty=format:'%H|%s|%ci|%cn'
FormatCommit(h) ==
    h \o "|" \o RepoCommits[h].subject \o "|" \o RepoCommits[h].date
      \o "|" \o RepoCommits[h].author

\* whether commit h changes a file under src/content/docs/<path>/ for a path
\* of product_paths (git log -- <pathspec>...)
TouchesPaths(h, product_paths) ==
    \E k \in DOMAIN RepoCommits[h].files : \E path \in product_paths :
        StartsWith(RepoCommits[h].files[k], DocsRoot \o path \o "/")

RECURSIVE LogLines(_, _)
LogLines(hist, product_paths) ==
    IF hist = <<>> THEN <<>>
    ELSE (IF TouchesPaths(Head(hist), product_paths)
          THEN <<FormatCommit(Head(hist))>> ELSE <<>>)
         \o LogLines(Tail(hist), product_paths)

\* stdout of the git log command of get_commits_in_range
GitLogStdout(hist, product_paths, extra) ==
    Join(LogLines(hist, product_paths) \o (IF extra = "" THEN <<>> ELSE <<extra>>), "\n")

\* run_git_command: result.stdout.strip()
run_git_command(stdout) == Strip(stdout)

Commit(hash_val, subject, date, author) ==
    [hash |-> hash_val, subject |-> subject, date |-> date, author |-> author]

\* the 4-name tuple assignment of l.259 raises ValueError unless the split
\* gives exactly 4 parts
ParseRaises(line) == Len(SplitMax(line, "|", 3)) # 4

ParseLine(line) ==
    LET parts == SplitMax(line, "|", 3) IN Commit(parts[1], parts[2], parts[3], parts[4])

RECURSIVE ParseLines(_)
ParseLines(lines) ==
    IF lines = <<>> THEN <<>>
    ELSE (IF Head(lines) # "" THEN <<ParseLine(Head(lines))>> ELSE <<>>)
         \o ParseLines(Tail(lines))

\* as get_commits_in_range, but without the checks for empty output and empty
\* lines, so that every line is unpacked
get_commits_in_range_NoEmptyCheck(stdout) ==
    LET lines == Split(run_git_command(stdout), "\n") IN
    IF \E k \in DOMAIN lines : ParseRaises(lines[k])
    THEN [raised |-> TRUE, commits |-> <<>>]
    ELSE [raised |-> FALSE, commits |-> ParseLines(lines)]

\* get_commits_in_range on the command's stdout: [raised, commits]
get_commits_in_range(stdout) ==
    LET output == run_git_command(stdout)
        lines == Split(output, "\n")
    IN IF output = "" THEN [raised |-> FALSE, commits |-> <<>>]
       ELSE IF \E k \in DOMAIN lines : lines[k] # "" /\ ParseRaises(lines[k])
            THEN [raised |-> TRUE, commits |-> <<>>]
            ELSE [raised |-> FALSE, commits |-> ParseLines(lines)]

RECURSIVE ParseLinesGuarded(_)
ParseLinesGuarded(lines) ==
    IF lines = <<>> THEN <<>>
    ELSE (IF Head(lines) # "" /\ Len(SplitMax(Head(lines), "|", 3)) >= 4
          THEN <<ParseLine(Head(lines))>> ELSE <<>>)
         \o ParseLinesGuarded(Tail(lines))

\* get_changelog_commits_in_range on the command's stdout
get_changelog_commits_in_range(stdout) ==
    LET output == run_git_command(stdout) IN
    IF output = "" THEN <<>> ELSE ParseLinesGuarded(Split(output, "\n"))

\* get_changed_files: git diff-tree --name-only -r, no output for an unknown hash
get_changed_files(commit_hash) ==
    IF commit_hash \in DOMAIN RepoCommits
    THEN SelectSeq(RepoCommits[commit_hash].files, LAMBDA f : f # "")
    ELSE <<>>

----------------------------------------------------------------------------
(* Frontmatter Parser and Changelog Scanner *)

ReadLimit == 2000

Unquote(title) ==
    IF StartsWith(title, "\"") /\ EndsWith(title, "\"") THEN SubSeq(title, 2, Len(title) - 1)
    ELSE IF StartsWith(title, "'") /\ EndsWith(title, "'") THEN SubSeq(title, 2, Len(title) - 1)
    ELSE title

RECURSIVE ScanFrontmatter_NoRegion(_, _, _, _)
\* as ScanFrontmatter, but a title: or date: line counts wherever it stands
\* before the closing delimiter
ScanFrontmatter_NoRegion(lines, in_frontmatter, title, date) ==
    IF lines = <<>> THEN <<title, date>>
    ELSE LET line == Head(lines) IN
         IF Strip(line) = "---"
         THEN IF ~in_frontmatter THEN ScanFrontmatter_NoRegion(Tail(lines), TRUE, title, date)
              ELSE <<title, date>>
         ELSE IF StartsWith(line, "title:")
              THEN ScanFrontmatter_NoRegion(Tail(lines), in_frontmatter,
                                            Unquote(Strip(Replace(line, "title:", ""))), date)
         ELSE IF StartsWith(line, "date:")
              THEN ScanFrontmatter_NoRegion(Tail(lines), in_frontmatter, title,
                                            Strip(Replace(line, "date:", "")))
         ELSE ScanFrontmatter_NoRegion(Tail(lines), in_frontmatter, title, date)

RECURSIVE ScanFrontmatter(_, _, _, _)
\* the for loop of l.332-348 over the remaining lines
ScanFrontmatter(lines, in_frontmatter, title, date) ==
    IF lines = <<>> THEN <<title, date>>
    ELSE LET line == Head(lines) IN
         IF Strip(line) = "---"
         THEN IF ~in_frontmatter THEN ScanFrontmatter(Tail(lines), TRUE, title, date)
              ELSE <<title, date>>
         ELSE IF in_frontmatter /\ StartsWith(line, "title:")
              THEN ScanFrontmatter(Tail(lines), in_frontmatter,
                                   Unquote(Strip(Replace(line, "title:", ""))), date)
         ELSE IF in_frontmatter /\ StartsWith(line, "date:")
              THEN ScanFrontmatter(Tail(lines), in_frontmatter, title,
                                   Strip(Replace(line, "date:", "")))
         ELSE ScanFrontmatter(Tail(lines), in_frontmatter, title, date)

\* parse_changelog_frontmatter on a file's text (None: no file, or unreadable)
parse_changelog_frontmatter(text) ==
    IF text = None THEN <<None, None>>
    ELSE ScanFrontmatter(Split(SubSeq(text, 1, IF Len(text) < ReadLimit THEN Len(text)
                                                ELSE ReadLimit), "\n"),
                         FALSE, None, None)

EntryPath(e) == ChangelogRoot \o e.dir \o "/" \o e.name

NoEntry == [found |-> FALSE]

EmptyMap == [k \in {} |-> <<>>]

\* as ScanEntry, but an entry dated on the first day of the range is left out
ScanEntry_ExclusiveStart(e, start, end, tracked) ==
    LET docs_dir == Get(CHANGELOG_TO_DOCS_MAP, e.dir, e.dir)
        product_name == Get(tracked, docs_dir, None)
        parsed == parse_changelog_frontmatter(e.content)
        title == parsed[1]
        entry_date == parsed[2]
    IN IF product_name = None \/ product_name = "" THEN NoEntry
       ELSE IF ~EndsWith(e.name, ".mdx") THEN NoEntry
       ELSE IF entry_date = None \/ entry_date = "" THEN NoEntry
       ELSE IF start # entry_date /\ StrLeq(start, entry_date) /\ StrLeq(entry_date, end)
            THEN [found |-> TRUE, product |-> product_name,
                  entry |-> [title |-> IF title = None \/ title = "" THEN e.name ELSE title,
                             url |-> changelog_file_to_url(EntryPath(e)),
                             date |-> entry_date,
                             file |-> EntryPath(e)]]
            ELSE NoEntry

\* the entry of l.388-393 for a file, NoEntry when the scan passes it over
ScanEntry(e, start, end, tracked) ==
    LET docs_dir == Get(CHANGELOG_TO_DOCS_MAP, e.dir, e.dir)
        product_name == Get(tracked, docs_dir, None)
        parsed == parse_changelog_frontmatter(e.content)
        title == parsed[1]
        entry_date == parsed[2]
    IN IF product_name = None \/ product_name = "" THEN NoEntry
       ELSE IF ~EndsWith(e.name, ".mdx") THEN NoEntry
       ELSE IF entry_date = None \/ entry_date = "" THEN NoEntry
       ELSE IF StrLeq(start, entry_date) /\ StrLeq(entry_date, end)
            THEN [found |-> TRUE, product |-> product_name,
                  entry |-> [title |-> IF title = None \/ title = "" THEN e.name ELSE title,
                             url |-> changelog_file_to_url(EntryPath(e)),
                             date |-> entry_date,
                             file |-> EntryPath(e)]]
            ELSE NoEntry

\* defaultdict(list): d[key].append(x)
AppendTo(d, key, x) ==
    IF key \in DOMAIN d THEN [d EXCEPT ![key] = Append(@, x)] ELSE (key :> <<x>>) @@ d

RECURSIVE InsertByDateDesc(_, _)
\* x after every entry that does not sort after it: a stable sort, reverse=True
InsertByDateDesc(sorted, x) ==
    IF sorted = <<>> THEN <<x>>
    ELSE IF StrLeq(x.date, Head(sorted).date) THEN <<Head(sorted)>> \o InsertByDateDesc(Tail(sorted), x)
    ELSE <<x>> \o sorted

RECURSIVE SortByDateDesc(_)
SortByDateDesc(entries) ==
    IF entries = <<>> THEN <<>>
    ELSE InsertByDateDesc(SortByDateDesc(SubSeq(entries, 1, Len(entries) - 1)),
                          entries[Len(entries)])

RECURSIVE CollectEntries(_, _, _, _, _)
CollectEntries(listing, start, end, tracked, acc) ==
    IF listing = <<>> THEN acc
    ELSE LET hit == ScanEntry(Head(listing), start, end, tracked) IN
         CollectEntries(Tail(listing), start, end, tracked,
                        IF hit.found THEN AppendTo(acc, hit.product, hit.entry) ELSE acc)

\* get_changelog_entries_in_date_range over the entry files in os.listdir order
get_changelog_entries_in_date_range(listing, start, end, tracked) ==
    LET found == CollectEntries(listing, start, end, tracked, EmptyMap) IN
    [p \in DOMAIN found |-> SortByDateDesc(found[p])]

----------------------------------------------------------------------------
(* Dates: datetime, timedelta, strptime, strftime *)

IsLeap(y) == (y % 4 = 0 /\ y % 100 # 0) \/ y % 400 = 0

DaysInMonth(y, m) ==
    IF m = 2 THEN (IF IsLeap(y) THEN 29 ELSE 28)
    ELSE IF m \in {4, 6, 9, 11} THEN 30 ELSE 31

NextDay(d) ==
    IF d[3] < DaysInMonth(d[1], d[2]) THEN <<d[1], d[2], d[3] + 1>>
    ELSE IF d[2] < 12 THEN <<d[1], d[2] + 1, 1>>
    ELSE <<d[1] + 1, 1, 1>>

PrevDay(d) ==
    IF d[3] > 1 THEN <<d[1], d[2], d[3] - 1>>
    ELSE IF d[2] > 1 THEN <<d[1], d[2] - 1, DaysInMonth(d[1], d[2] - 1)>>
    ELSE <<d[1] - 1, 12, 31>>

RECURSIVE AddDays(_, _)
\* d + timedelta(days=n)
AddDays(d, n) ==
    IF n = 0 THEN d
    ELSE IF n > 0 THEN AddDays(NextDay(d), n - 1)
    ELSE AddDays(PrevDay(d), n + 1)

\* d.replace(day=1)
FirstOfMonth(d) == <<d[1], d[2], 1>>

DigitChars == "0123456789"

RECURSIVE ToStr(_)
\* str(n), n >= 0
ToStr(n) ==
    IF n < 10 THEN Ch(DigitChars, n + 1)
    ELSE ToStr(n \div 10) \o Ch(DigitChars, (n % 10) + 1)

RECURSIVE ZeroPad(_, _)
ZeroPad(str, width) == IF Len(str) >= width THEN str ELSE ZeroPad("0" \o str, width)

IsNumber(str) == str # "" /\ \A i \in 1..Len(str) : Ch(str, i) \in Digits

RECURSIVE ToInt(_)
ToInt(str) ==
    IF str = "" THEN 0
    ELSE 10 * ToInt(SubSeq(str, 1, Len(str) - 1))
         + ((CHOOSE i \in 1..10 : Ch(DigitChars, i) = Ch(str, Len(str))) - 1)

\* whether datetime.strptime(month, '%Y-%m') raises ValueError
StrptimeRaises(month) ==
    LET parts == Split(month, "-") IN
    ~ /\ Len(parts) = 2
      /\ Len(parts[1]) = 4 /\ IsNumber(parts[1]) /\ ToInt(parts[1]) >= 1
      /\ Len(parts[2]) \in {1, 2} /\ IsNumber(parts[2]) /\ ToInt(parts[2]) \in 1..12

\* datetime.strptime(month, '%Y-%m'): the first day of the month
Strptime(month) ==
    LET parts == Split(month, "-") IN <<ToInt(parts[1]), ToInt(parts[2]), 1>>

\* d.strftime('%Y-%m-%d')
FormatDate(d) ==
    ZeroPad(ToStr(d[1]), 4) \o "-" \o ZeroPad(ToStr(d[2]), 2) \o "-" \o ZeroPad(ToStr(d[3]), 2)

MonthNames == <<"January", "February", "March", "April", "May", "June", "July",
                "August", "September", "October", "November", "December">>

\* d.strftime('%B %Y')
FormatMonthName(d) == MonthNames[d[2]] \o " " \o ZeroPad(ToStr(d[1]), 4)

\* l.545-552: <<start_date, end_date>> from --month, or from now() without it
DateRange(month, now) ==
    IF month # None
    THEN LET start == Strptime(month) IN
         <<start, AddDays(FirstOfMonth(AddDays(start, 32)), -1)>>
    ELSE LET end == AddDays(FirstOfMonth(now), -1) IN
         <<FirstOfMonth(end), end>>

\* the years a datetime can hold
MINYEAR == 1

MAXYEAR == 9999

\* whether the arithmetic of l.546 or l.551 raises OverflowError: an
\* intermediate date leaves MINYEAR..MAXYEAR
DateRangeRaises(month, now) ==
    IF month # None
    THEN AddDays(Strptime(month), 32)[1] > MAXYEAR
    ELSE AddDays(FirstOfMonth(now), -1)[1] < MINYEAR

----------------------------------------------------------------------------
(* Summary Generator *)

\* stdout of "git show <hash> -- <file> | grep '^[+-]##' | head -5"
RepoDiffHeadings ==
       <<"c1", "src/content/docs/cache/about.mdx">> :>
            <<"+## Purge by tag", "-## Purge by tag", "+### Limits">>
    @@ <<"c5", "src/content/docs/dns/zone.mdx">> :> <<"+##Zone transfers">>

SectionCap == 3

\* the section title of a diff line, "" for a line that gives none
SectionOf(line) ==
    LET section == Strip(LStrip(Drop(line, 3))) IN
    IF (StartsWith(line, "+##") \/ StartsWith(line, "-##")) /\ ~StartsWith(section, "#")
    THEN section ELSE ""

\* get_file_sections: the unique titles; list(set(...))[:3] keeps all of at
\* most 3, and some 3 of more
get_file_sections(commit_hash, file_path) ==
    LET lines == Get(RepoDiffHeadings, <<commit_hash, file_path>>, <<>>)
        unique == {SectionOf(lines[k]) : k \in DOMAIN lines} \ {""}
    IN IF Cardinality(unique) <= SectionCap THEN unique
       ELSE CHOOSE some \in SUBSET unique : Cardinality(some) = SectionCap

RECURSIVE SortedNames(_)
\* sorted(...) of a set of str
SortedNames(S) ==
    IF S = {} THEN <<>>
    ELSE LET least == CHOOSE x \in S : \A y \in S : StrLeq(x, y) IN
         <<least>> \o SortedNames(S \ {least})

DocFiles(commit_hash) ==
    SelectSeq(get_changed_files(commit_hash), LAMBDA f : StartsWith(f, DocsRoot))

FileLinkCap == 3

RECURSIVE FileLines(_, _)
\* l.473-480 over the files of doc_files[:3]
FileLines(commit_hash, shown) ==
    IF shown = <<>> THEN <<>>
    ELSE LET url == file_to_url(Head(shown)) IN
         (IF url # None /\ url # ""
          THEN <<[kind |-> "file", text |-> "   - " \o url,
                  updated |-> get_file_sections(commit_hash, Head(shown))]>>
          ELSE <<>>)
         \o FileLines(commit_hash, Tail(shown))

\* as CommitLines, but every documentation file gets its line
CommitLines_NoCap(product, commit) ==
    LET doc_files == DocFiles(commit.hash)
        n == Len(doc_files)
    IN IF n = 0 THEN <<>>
       ELSE <<[kind |-> "update", hash |-> commit.hash,
               text |-> "\nUpdate to the " \o product \o " documentation: "
                        \o clean_commit_subject(commit.subject)]>>
            \o FileLines(commit.hash, doc_files)
            \o (IF n > FileLinkCap
                THEN <<[kind |-> "more",
                        text |-> "   - ... and " \o ToStr(n - FileLinkCap) \o " more files"]>>
                ELSE <<>>)

\* the lines generate_summary appends for one commit of a product
CommitLines(product, commit) ==
    LET doc_files == DocFiles(commit.hash)
        n == Len(doc_files)
    IN IF n = 0 THEN <<>>
       ELSE <<[kind |-> "update", hash |-> commit.hash,
               text |-> "\nUpdate to the " \o product \o " documentation: "
                        \o clean_commit_subject(commit.subject)]>>
            \o FileLines(commit.hash,
                         SubSeq(doc_files, 1, IF n < FileLinkCap THEN n ELSE FileLinkCap))
            \o (IF n > FileLinkCap
                THEN <<[kind |-> "more",
                        text |-> "   - ... and " \o ToStr(n - FileLinkCap) \o " more files"]>>
                ELSE <<>>)

RECURSIVE CommitsLines(_, _)
CommitsLines(product, list) ==
    IF list = <<>> THEN <<>>
    ELSE CommitLines(product, Head(list)) \o CommitsLines(product, Tail(list))

RECURSIVE ProductsLines(_, _)
ProductsLines(by_product, products) ==
    IF products = <<>> THEN <<>>
    ELSE CommitsLines(Head(products), by_product[Head(products)])
         \o ProductsLines(by_product, Tail(products))

\* generate_summary: the lines joined by '\n'
generate_summary(by_product, month_name) ==
    <<[kind |-> "heading", text |-> "# Documentation Updates - " \o month_name \o "\n"]>>
    \o ProductsLines(by_product, SortedNames(DOMAIN by_product))

\* the git commands generate_summary runs: one diff-tree per commit of a
\* product, one show per file line
SummaryGitCalls(by_product) ==
    LET lines == ProductsLines(by_product, SortedNames(DOMAIN by_product))
        RECURSIVE Total(_)
        Total(products) ==
            IF products = <<>> THEN 0
            ELSE Len(by_product[Head(products)]) + Total(Tail(products))
    IN Total(SortedNames(DOMAIN by_product))
       + Len(SelectSeq(lines, LAMBDA l : l.kind = "file"))

RECURSIVE EntriesLines(_, _)
EntriesLines(product, entries) ==
    IF entries = <<>> THEN <<>>
    ELSE <<[kind |-> "entry",
            text |-> "\nNew changelog entry for " \o product \o ": " \o Head(entries).title]>>
         \o (IF Head(entries).url # None /\ Head(entries).url # ""
             THEN <<[kind |-> "link", text |-> "   - " \o Head(entries).url]>>
             ELSE <<>>)
         \o EntriesLines(product, Tail(entries))

RECURSIVE ChangelogLines(_, _)
ChangelogLines(by_product, products) ==
    IF products = <<>> THEN <<>>
    ELSE EntriesLines(Head(products), by_product[Head(products)])
         \o ChangelogLines(by_product, Tail(products))

generate_changelog_summary(by_product, month_name) ==
    LET body == ChangelogLines(by_product, SortedNames(DOMAIN by_product)) IN
    <<[kind |-> "heading", text |-> "\n\n# New Changelog Entries - " \o month_name \o "\n"]>>
    \o (IF \E p \in DOMAIN by_product : by_product[p] # <<>>
        THEN body
        ELSE <<[kind |-> "empty",
                text |-> "\nNo new changelog entries found for tracked products."]>>)

----------------------------------------------------------------------------
(* CLI Driver: main *)

MaxCommits == 2

MaxEntries == 2

\* an nargs='+' option that was not given (argparse never yields an empty list)
NotGiven == <<>>

\* --products / --category of the run
Selections == {
    [products |-> NotGiven, category |-> NotGiven],
    [products |-> NotGiven, category |-> <<"app_perf">>],
    [products |-> <<"cache", "bogus">>, category |-> <<"cf1">>],
    [products |-> <<"dns", "cache">>, category |-> NotGiven]}

\* --repo: no such directory, a directory without .git, a git repository
RepoKinds == {"nodir", "nogit", "repo"}

Months == {None, "2026-01"}

Todays == {<<2026, 2, 7>>}

Outputs == {None, "out.md"}

NoDate == <<0, 0, 0>>

NoEffects == [git |-> 0, scans |-> 0, opened |-> 0, written |-> 0]

\* no lone parser call is under way
NoFile == [state |-> "none", lines |-> <<>>]

NotParsed == <<>>

Init ==
    /\ args \in [repo : RepoKinds, month : Months, selection : Selections,
                 include_trivial : BOOLEAN, output : Outputs]
    /\ git_stdout = ""
    /\ tree = {}
    /\ today = NoDate
    /\ pc = "validate"
    /\ start_date = None
    /\ end_date = None
    /\ tracked_products = EmptyMap
    /\ products_to_track = {}
    /\ query_paths = {}
    /\ commits = <<>>
    /\ ci = 0
    /\ commits_by_product = EmptyMap
    /\ changelog_by_product = EmptyMap
    /\ summary = <<>>
    /\ changelog_summary = <<>>
    /\ effects = NoEffects
    /\ file = NoFile
    /\ parse_result = NotParsed
    /\ ret = -1

\* the commits of the month git may walk, in its --date-order, out of pool
Histories(pool) == DistinctSeqs(pool, MaxCommits)

\* the changelog trees the scan may find, out of files
Trees(files) == {t \in SUBSET files : Cardinality(t) <= MaxEntries}

\* as Validate, but a directory that is no git repository is let through
Validate_NoGitCheck ==
    /\ pc = "validate"
    /\ IF args.repo = "nodir"
       THEN pc' = "done" /\ ret' = 1
       ELSE pc' = "dates" /\ ret' = ret
    /\ UNCHANGED <<file, parse_result, args, git_stdout, tree, today, start_date, end_date, tracked_products,
                   products_to_track, query_paths, commits, ci, commits_by_product,
                   changelog_by_product, summary, changelog_summary, effects>>

\* l.531-542: the repository path is checked before anything else
Validate ==
    /\ pc = "validate"
    /\ IF args.repo # "repo"
       THEN pc' = "done" /\ ret' = 1
       ELSE pc' = "dates" /\ ret' = ret
    /\ UNCHANGED <<file, parse_result, args, git_stdout, tree, today, start_date, end_date, tracked_products,
                   products_to_track, query_paths, commits, ci, commits_by_product,
                   changelog_by_product, summary, changelog_summary, effects>>

\* l.544-554: the date range, from --month or from the clock
ResolveDates(clock) ==
    /\ pc = "dates"
    \* the clock is read only when there is no --month (l.550)
    /\ \E now \in IF args.month = None THEN clock ELSE {today} :
        /\ today' = now
        /\ IF IF args.month # None /\ StrptimeRaises(args.month) THEN TRUE
              ELSE DateRangeRaises(args.month, now)
           THEN pc' = "raised" /\ UNCHANGED <<start_date, end_date>>
           ELSE /\ pc' = "select"
                /\ start_date' = FormatDate(DateRange(args.month, now)[1])
                /\ end_date' = FormatDate(DateRange(args.month, now)[2])
    /\ UNCHANGED <<file, parse_result, args, git_stdout, tree, tracked_products, products_to_track, query_paths, commits, ci,
                   commits_by_product, changelog_by_product, summary,
                   changelog_summary, effects, ret>>

\* the datetime start_date of main, whose strftime start_date holds
StartDay == <<ToInt(SubSeq(start_date, 1, 4)), ToInt(SubSeq(start_date, 6, 7)), 1>>

month_name == FormatMonthName(StartDay)

\* {k: v for k, v in d.items() if k in keys}
Restrict(d, keys) == [k \in DOMAIN d \cap keys |-> d[k]]

\* l.556-566: the products of the run
SelectProducts ==
    /\ pc = "select"
    /\ IF args.selection.products # NotGiven
       THEN /\ tracked_products' = Restrict(get_tracked_products(None),
                                            Range(args.selection.products))
            /\ products_to_track' = Range(args.selection.products)
       ELSE /\ tracked_products' =
                  get_tracked_products(IF args.selection.category = NotGiven
                                       THEN None ELSE args.selection.category)
            /\ products_to_track' = DOMAIN tracked_products'
    /\ pc' = "query"
    /\ UNCHANGED <<file, parse_result, args, git_stdout, tree, today, start_date, end_date, query_paths, commits, ci,
                   commits_by_product, changelog_by_product, summary,
                   changelog_summary, effects, ret>>

\* l.577-587: the history query; a record that does not unpack ends the run
QueryCommits(pool) ==
    /\ pc = "query"
    /\ query_paths' = products_to_track
    /\ effects' = [effects EXCEPT !.git = @ + 1]
    /\ \E history \in Histories(pool) : \E extra \in NoiseLines \cup {""} :
        LET stdout == GitLogStdout(history, products_to_track, extra)
            got == get_commits_in_range(stdout)
        IN
        /\ git_stdout' = stdout
        /\ IF got.raised
           THEN pc' = "raised" /\ UNCHANGED commits
           ELSE pc' = "organize" /\ commits' = got.commits
    /\ UNCHANGED <<file, parse_result, args, tree, today, start_date, end_date, tracked_products,
                   products_to_track, ci, commits_by_product, changelog_by_product,
                   summary, changelog_summary, ret>>

RECURSIVE AddToProducts_NoDedup(_, _, _, _)
\* as AddToProducts, but without looking whether the list holds the commit
AddToProducts_NoDedup(by_product, commit, files, tracked) ==
    IF files = <<>> THEN by_product
    ELSE LET product == extract_product_from_path(Head(files), tracked) IN
         AddToProducts_NoDedup(
             IF product # None /\ product # ""
             THEN AppendTo(by_product, product, commit)
             ELSE by_product,
             commit, Tail(files), tracked)

RECURSIVE AddToProducts(_, _, _, _)
\* l.596-599 over the remaining files of a commit
AddToProducts(by_product, commit, files, tracked) ==
    IF files = <<>> THEN by_product
    ELSE LET product == extract_product_from_path(Head(files), tracked)
             held == Get(by_product, product, <<>>)
         IN AddToProducts(
                IF product # None /\ product # "" /\ commit \notin Range(held)
                THEN AppendTo(by_product, product, commit)
                ELSE by_product,
                commit, Tail(files), tracked)

\* as SkipsCommit, but a significant subject is never passed over
SkipsCommit_UnlessSignificant(commit) ==
    /\ ~args.include_trivial
    /\ is_trivial_change(commit.subject)
    /\ ~is_significant_change(commit.subject)

\* l.589-592: whether the loop passes the commit over
SkipsCommit(commit) == ~args.include_trivial /\ is_trivial_change(commit.subject)

\* l.589-599: one turn of the loop over commits
OrganizeCommit ==
    /\ pc = "organize"
    /\ ci < Len(commits)
    /\ ci' = ci + 1
    /\ LET commit == commits[ci + 1] IN
       IF SkipsCommit(commit)
       THEN UNCHANGED <<commits_by_product, effects>>
       ELSE /\ commits_by_product' =
                  AddToProducts(commits_by_product, commit,
                                get_changed_files(commit.hash), tracked_products)
            /\ effects' = [effects EXCEPT !.git = @ + 1]
    /\ UNCHANGED <<file, parse_result, args, git_stdout, tree, today, pc, start_date, end_date, tracked_products,
                   products_to_track, query_paths, commits, changelog_by_product,
                   summary, changelog_summary, ret>>

\* the orders os.listdir may give the entry files in
Listings(t) == {q \in DistinctSeqs(t, Cardinality(t)) : Len(q) = Cardinality(t)}

\* l.601-609: the changelog pass, after the last commit
ScanChangelog(files) ==
    /\ pc = "organize"
    /\ ci = Len(commits)
    /\ \E found \in Trees(files) : \E listing \in Listings(found) :
        /\ tree' = found
        /\ changelog_by_product' =
              get_changelog_entries_in_date_range(listing, start_date, end_date,
                                                  tracked_products)
    /\ effects' = [effects EXCEPT !.scans = @ + 1]
    /\ pc' = "summaries"
    /\ UNCHANGED <<file, parse_result, args, git_stdout, today, start_date, end_date, tracked_products,
                   products_to_track, query_paths, commits, ci, commits_by_product,
                   summary, changelog_summary, ret>>

\* l.611-615: the two reports
GenerateSummaries ==
    /\ pc = "summaries"
    /\ summary' = generate_summary(commits_by_product, month_name)
    /\ changelog_summary' = generate_changelog_summary(changelog_by_product, month_name)
    /\ effects' = [effects EXCEPT !.git = @ + SummaryGitCalls(commits_by_product)]
    /\ pc' = "output"
    /\ UNCHANGED <<file, parse_result, args, git_stdout, tree, today, start_date, end_date, tracked_products,
                   products_to_track, query_paths, commits, ci, commits_by_product,
                   changelog_by_product, ret>>

\* l.617-626: the report goes to the output file or to stdout
WriteOutput ==
    /\ pc = "output"
    /\ effects' = IF args.output # None
                  THEN [effects EXCEPT !.opened = @ + 1, !.written = @ + 1]
                  ELSE effects
    /\ ret' = 0
    /\ pc' = "done"
    /\ UNCHANGED <<file, parse_result, args, git_stdout, tree, today, start_date, end_date, tracked_products,
                   products_to_track, query_paths, commits, ci, commits_by_product,
                   changelog_by_product, summary, changelog_summary>>

\* the entry files of the runs that explore the commit history
FewChangelogFiles == {e \in ChangelogFiles : e.dir \in {"access", "bogus"}}

\* the commits of the runs that explore the changelog tree
FewCommits == {"c2", "c5"}

\* runs over every history of the repository's commits
Next ==
    \/ Validate
    \/ ResolveDates(Todays)
    \/ SelectProducts
    \/ QueryCommits(DOMAIN RepoCommits)
    \/ OrganizeCommit
    \/ ScanChangelog(FewChangelogFiles)
    \/ GenerateSummaries
    \/ WriteOutput

Spec == Init /\ [][Next]_vars

\* runs over every changelog tree
NextChangelog ==
    \/ Validate
    \/ ResolveDates(Todays)
    \/ SelectProducts
    \/ QueryCommits(FewCommits)
    \/ OrganizeCommit
    \/ ScanChangelog(ChangelogFiles)
    \/ GenerateSummaries
    \/ WriteOutput

SpecChangelog == Init /\ [][NextChangelog]_vars

----------------------------------------------------------------------------
(* The Frontmatter Parser on its own: one call on one file *)

MaxLines == 4

\* the lines a file may be made of
FrontmatterLines == {"---", "--- ", "title: A", "title: 'B'", "date: 2026-01-15", "Text"}

\* the sequences over S of length at most n
RECURSIVE SeqsUpTo(_, _)
SeqsUpTo(S, n) ==
    IF n = 0 THEN {<<>>}
    ELSE LET shorter == SeqsUpTo(S, n - 1) IN
         shorter \cup {Append(q, x) : <<q, x>> \in shorter \X S}

\* the file at file_path: not there, there but not readable as UTF-8 text, or
\* a text of some lines
Files ==
    {[state |-> "missing", lines |-> <<>>], [state |-> "unreadable", lines |-> <<>>]}
    \cup {[state |-> "ok", lines |-> q] : q \in SeqsUpTo(FrontmatterLines, MaxLines)}

\* l.318-326: what f.read gives, None when the path does not exist or open or
\* read raise
ReadText(f) == IF f.state = "ok" THEN Join(f.lines, "\n") ELSE None

InitFrontmatter ==
    /\ file \in Files
    /\ parse_result = NotParsed
    /\ pc = "parse"
    /\ args = [repo |-> "repo", month |-> None, selection |-> [products |-> NotGiven,
               category |-> NotGiven], include_trivial |-> FALSE, output |-> None]
    /\ git_stdout = ""
    /\ tree = {}
    /\ today = NoDate
    /\ start_date = None
    /\ end_date = None
    /\ tracked_products = EmptyMap
    /\ products_to_track = {}
    /\ query_paths = {}
    /\ commits = <<>>
    /\ ci = 0
    /\ commits_by_product = EmptyMap
    /\ changelog_by_product = EmptyMap
    /\ summary = <<>>
    /\ changelog_summary = <<>>
    /\ effects = NoEffects
    /\ ret = -1

\* one call of parse_changelog_frontmatter
ParseFile ==
    /\ pc = "parse"
    /\ parse_result' = parse_changelog_frontmatter(ReadText(file))
    /\ pc' = "parsed"
    /\ UNCHANGED <<file, args, git_stdout, tree, today, start_date, end_date,
                   tracked_products, products_to_track, query_paths, commits, ci,
                   commits_by_product, changelog_by_product, summary,
                   changelog_summary, effects, ret>>

NextFrontmatter == ParseFile

SpecFrontmatter == InitFrontmatter /\ [][NextFrontmatter]_vars

----------------------------------------------------------------------------
(* The date range on its own: every month argument, every day of the clock *)

\* leap and common years, century years of both kinds, and the last year
Years == {1999, 2000, 2023, 2024, 2100, 9999}

\* the --month arguments YYYY-MM of those years, and none
MonthArgs ==
    {None} \cup {ZeroPad(ToStr(y), 4) \o "-" \o ZeroPad(ToStr(m), 2) :
                    <<y, m>> \in Years \X (1..12)}

ClockYears == {2023, 2024, 2025}

\* every date datetime.now() may give in those years
Clock ==
    {d \in ClockYears \X (1..12) \X (1..31) : d[3] <= DaysInMonth(d[1], d[2])}

InitDates ==
    /\ args \in [repo : {"repo"}, month : MonthArgs,
                 selection : {[products |-> NotGiven, category |-> NotGiven]},
                 include_trivial : {FALSE}, output : {None}]
    /\ git_stdout = ""
    /\ tree = {}
    /\ today = NoDate
    /\ pc = "validate"
    /\ start_date = None
    /\ end_date = None
    /\ tracked_products = EmptyMap
    /\ products_to_track = {}
    /\ query_paths = {}
    /\ commits = <<>>
    /\ ci = 0
    /\ commits_by_product = EmptyMap
    /\ changelog_by_product = EmptyMap
    /\ summary = <<>>
    /\ changelog_summary = <<>>
    /\ effects = NoEffects
    /\ file = NoFile
    /\ parse_result = NotParsed
    /\ ret = -1

\* main up to the date range
NextDates ==
    \/ Validate
    \/ ResolveDates(Clock)

SpecDates == InitDates /\ [][NextDates]_vars

----------------------------------------------------------------------------
(* Properties *)

\* the history query has returned and the run goes on
Queried == pc \in {"organize", "summaries", "output", "done"}

\* the display names of the full table: common products and all categories
AllProductNames == Range(get_tracked_products(None))

\* file_path is src/content/docs/<dir>/... for a dir the run's table maps to P
UnderProduct(file_path, P) ==
    \E dir \in DOMAIN tracked_products :
        tracked_products[dir] = P /\ StartsWith(file_path, "src/content/docs/" \o dir \o "/")

\* one of the commit's changed files maps to P
MapsTo(hash, P) ==
    /\ hash \in DOMAIN RepoCommits
    /\ \E k \in DOMAIN RepoCommits[hash].files : UnderProduct(RepoCommits[hash].files[k], P)

\* the commits of product P's change set
ChangeSet(P) == Get(commits_by_product, P, <<>>)

\* C1: a commit is in a product's change set only if one of its changed
\* files lies under src/content/docs/<dir>/ for a <dir> that the run's table
\* maps to that product; in every state of the organizing loop and after it
C1_ChangeSetOnlyMapped ==
    \A P \in DOMAIN commits_by_product : \A k \in DOMAIN commits_by_product[P] :
        MapsTo(commits_by_product[P][k].hash, P)

\* C1: inside the loop, with one commit filed under two products
C1_Witness ==
    /\ pc = "organize"
    /\ ci = 1
    /\ Len(commits) = 2
    /\ {"Cache", "DNS"} \subseteq DOMAIN commits_by_product

\* the records of the well-formed lines of a git log output, in order
WellFormedRecords(stdout) ==
    LET lines == Split(Strip(stdout), "\n") IN
    ParseLinesGuarded(SelectSeq(lines, LAMBDA l : Len(Split(l, "|")) >= 4))

\* C2: once the history query has run, a line of fewer than 4 fields in its
\* output has not ended the run, and the commits are the records of the
\* well-formed lines
C2_MalformedRecordsSkipped ==
    effects.git >= 1 =>
        /\ pc # "raised"
        /\ commits = WellFormedRecords(git_stdout)

\* C3: every parsed commit carries the hash, subject, date and author that the
\* log line was built from
C3_FieldsPreserved ==
    \A k \in DOMAIN commits :
        LET h == commits[k].hash IN
        h \in DOMAIN RepoCommits =>
            commits[k] = Commit(h, RepoCommits[h].subject, RepoCommits[h].date,
                                RepoCommits[h].author)

\* the products the commit's files map to, and those that hold it
Candidates(commit) ==
    {extract_product_from_path(f, tracked_products) :
        f \in Range(get_changed_files(commit.hash))}
    \cup {P \in DOMAIN commits_by_product : commit \in Range(commits_by_product[P])}

\* C4: a handled commit is in product P's change set exactly when one of its
\* files maps to P and either the include-trivial flag is set or its subject
\* matches no trivial pattern; significant patterns play no part. A commit
\* not yet handled is in no change set
C4_TrivialFilter ==
    Queried =>
        \A k \in DOMAIN commits : \A P \in Candidates(commits[k]) \ {None} :
            commits[k] \in Range(ChangeSet(P))
            <=> /\ k <= ci
                /\ args.include_trivial \/ ~is_trivial_change(commits[k].subject)
                /\ MapsTo(commits[k].hash, P)

\* C4: a subject that is trivial and significant at once was passed over
C4_Witness ==
    /\ pc = "organize"
    /\ ~args.include_trivial
    /\ ci >= 1
    /\ commits[ci].subject = "Fix typo in release notes"
    /\ is_trivial_change(commits[ci].subject)
    /\ is_significant_change(commits[ci].subject)
    /\ MapsTo(commits[ci].hash, "Cache")
    /\ \A P \in DOMAIN commits_by_product : commits[ci] \notin Range(commits_by_product[P])

\* the changelog pass has run
Scanned == pc \in {"summaries", "output", "done"}

\* the product a changelog directory maps to: the alias map, then the run's table
DirProduct(dir) ==
    Get(tracked_products,
        IF dir \in DOMAIN CHANGELOG_TO_DOCS_MAP THEN CHANGELOG_TO_DOCS_MAP[dir] ELSE dir,
        None)

FrontmatterDate(e) == parse_changelog_frontmatter(e.content)[2]

\* start <= d <= end as strings, for a date that is there
InRange(d) == d # None /\ d # "" /\ StrLeq(start_date, d) /\ StrLeq(d, end_date)

\* product P's list holds the entry of file e
Listed(e, P) ==
    \E k \in DOMAIN Get(changelog_by_product, P, <<>>) :
        changelog_by_product[P][k].file = EntryPath(e)

\* C5 as stated: every file of the tree is in P's list exactly when its
\* directory maps to P and its frontmatter date lies in [start, end]
C5_EveryEntryFile ==
    Scanned =>
        \A e \in tree : \A P \in AllProductNames :
            Listed(e, P) <=> (DirProduct(e.dir) = P /\ InRange(FrontmatterDate(e)))

\* C5, amended: a file whose name ends in .mdx is in P's list exactly when its
\* directory maps to P and its frontmatter date lies in [start, end]; any
\* other file is in no list; and the lists hold nothing but the tree's entries
C5_MdxEntryFiles ==
    Scanned =>
        /\ \A e \in tree : \A P \in AllProductNames :
              Listed(e, P) <=> /\ EndsWith(e.name, ".mdx")
                               /\ DirProduct(e.dir) = P
                               /\ InRange(FrontmatterDate(e))
        /\ \A P \in DOMAIN changelog_by_product :
              /\ P \in AllProductNames
              /\ \A k \in DOMAIN changelog_by_product[P] :
                    \E e \in tree :
                        /\ changelog_by_product[P][k].file = EntryPath(e)
                        /\ changelog_by_product[P][k].date = FrontmatterDate(e)

\* C5: an aliased directory's entry dated on the first day of the range is
\* listed, and an entry dated the day after the range is not
C5_Witness ==
    /\ Scanned
    /\ start_date = "2026-01-01"
    /\ end_date = "2026-01-31"
    /\ \E e \in tree :
        /\ e.dir = "access"
        /\ FrontmatterDate(e) = "2026-01-01"
        /\ Listed(e, "Cloudflare One")
    /\ \E e \in tree :
        /\ FrontmatterDate(e) = "2026-02-01"
        /\ DirProduct(e.dir) = "DNS"
        /\ ~Listed(e, "DNS")

\* C6: a --repo that is no directory, or holds no .git, ends the run with
\* status 1 and nothing queried, scanned, opened or written; a run that
\* reaches its end otherwise returns 0
C6_ConfigErrorsEndRun ==
    /\ args.repo # "repo" =>
          /\ pc \in {"validate", "done"}
          /\ effects = NoEffects
          /\ pc = "done" => ret = 1
    /\ pc = "validate" => effects = NoEffects
    /\ (args.repo = "repo" /\ pc = "done") => ret = 0
    /\ ret # -1 <=> pc = "done"

\* C6: a directory without .git has ended the run
C6_Witness ==
    /\ args.repo = "nogit"
    /\ pc = "done"
    /\ ret = 1
    /\ effects = NoEffects

\* C7: with --products, whatever --category says, the products tracked and
\* the products queried are the requested keys that the full table holds
C7_ExplicitSubsetExact ==
    (args.selection.products # NotGiven /\ effects.git >= 1) =>
        LET wanted == Range(args.selection.products) \cap DOMAIN get_tracked_products(None) IN
        /\ DOMAIN tracked_products = wanted
        /\ query_paths = wanted

\* the number of the commit's changed files under src/content/docs/
DocFileCount(hash) ==
    Cardinality({k \in DOMAIN RepoCommits[hash].files :
                    StartsWith(RepoCommits[hash].files[k], "src/content/docs/")})

\* C8: in the summary, the line of a commit with n changed documentation
\* files is followed by min(n, 3) file lines, then by the line
\* '... and (n - 3) more files' exactly when n > 3
C8_FileLinkCap ==
    pc \in {"output", "done"} =>
        \A i \in DOMAIN summary :
            summary[i].kind = "update" =>
                LET n == DocFileCount(summary[i].hash)
                    m == IF n < 3 THEN n ELSE 3
                IN /\ n >= 1
                   /\ i + m <= Len(summary)
                   /\ \A j \in (i + 1)..(i + m) : summary[j].kind = "file"
                   /\ IF n > 3
                      THEN /\ i + m + 1 <= Len(summary)
                           /\ summary[i + m + 1] =
                                [kind |-> "more",
                                 text |-> "   - ... and " \o ToStr(n - 3) \o " more files"]
                      ELSE i + m + 1 <= Len(summary) => summary[i + m + 1].kind = "update"

\* C8: a commit of 5 documentation files: 3 file lines and '... and 2 more files'
C8_Witness ==
    /\ pc = "done"
    /\ \E i \in DOMAIN summary :
        /\ summary[i].kind = "update"
        /\ DocFileCount(summary[i].hash) = 5
        /\ i + 4 <= Len(summary)
        /\ \A j \in (i + 1)..(i + 3) : summary[j].kind = "file"
        /\ summary[i + 4].text = "   - ... and 2 more files"

\* C9: when git log prints nothing, the run does not stop: there are no
\* commits, the summary is its heading line alone, the changelog pass has run
\* by then, and main returns 0
C9_EmptyQueryNotAnError ==
    (effects.git >= 1 /\ Strip(git_stdout) = "") =>
        /\ pc # "raised"
        /\ commits = <<>>
        /\ pc \in {"output", "done"} =>
              /\ Len(summary) = 1
              /\ summary[1].kind = "heading"
              /\ effects.scans = 1
        /\ pc = "done" => ret = 0

\* C9: a run whose history query found nothing has returned 0
C9_Witness ==
    /\ pc = "done"
    /\ effects.git >= 1
    /\ git_stdout = ""
    /\ Len(summary) = 1
    /\ Len(changelog_summary) >= 2
    /\ ret = 0

\* the place of a commit in the list the history query returned
Place(commit) == CHOOSE k \in DOMAIN commits : commits[k] = commit

\* C10: no hash occurs twice in a product's change set, and its commits keep
\* the order of the list the history query returned
C10_DistinctInOrder ==
    \A P \in DOMAIN commits_by_product :
        LET list == commits_by_product[P] IN
        /\ \A i \in DOMAIN list : list[i] \in Range(commits)
        /\ \A i, j \in DOMAIN list :
              i < j => /\ list[i].hash # list[j].hash
                       /\ Place(list[i]) < Place(list[j])

\* C10: after the loop, a change set of two commits, one of them with several
\* files of that product
C10_Witness ==
    /\ pc = "organize"
    /\ ci = Len(commits)
    /\ \E P \in DOMAIN commits_by_product :
        /\ Len(commits_by_product[P]) = 2
        /\ \E k \in DOMAIN commits_by_product[P] :
              LET files == RepoCommits[commits_by_product[P][k].hash].files IN
              Cardinality({f \in DOMAIN files : UnderProduct(files[f], P)}) >= 2

\* the line is '---' and nothing else
IsBareDelimiter(line) == line = "---"

\* the line is '---' between any leading and trailing whitespace
IsDelimiter(line) == Strip(line) = "---"

Least(S) == CHOOSE i \in S : \A j \in S : i <= j

Greatest(S) == CHOOSE i \in S : \A j \in S : j <= i

\* the places of the lines strictly after the first delimiter line and
\* strictly before the next one (the end of the text when there is none)
Region(lines, IsDelim(_)) ==
    LET delims == {i \in DOMAIN lines : IsDelim(lines[i])} IN
    IF delims = {} THEN {}
    ELSE LET open == Least(delims)
             later == {i \in delims : i > open}
             close == IF later = {} THEN Len(lines) + 1 ELSE Least(later)
         IN (open + 1)..(close - 1)

\* the title and the date of the last title: line and the last date: line of
\* the region, None where the region has no such line
RegionValues(lines, IsDelim(_)) ==
    LET titles == {i \in Region(lines, IsDelim) : StartsWith(lines[i], "title:")}
        dates == {i \in Region(lines, IsDelim) : StartsWith(lines[i], "date:")}
    IN <<IF titles = {} THEN None
         ELSE Unquote(Strip(Replace(lines[Greatest(titles)], "title:", ""))),
         IF dates = {} THEN None
         ELSE Strip(Replace(lines[Greatest(dates)], "date:", ""))>>

\* C11 as stated: the result is read off the lines between the first line
\* that is exactly '---' and the next such line, and a missing or unreadable
\* file gives (None, None)
C11_BareDelimiterRegion ==
    pc = "parsed" =>
        parse_result = IF file.state = "ok"
                       THEN RegionValues(file.lines, IsBareDelimiter)
                       ELSE <<None, None>>

\* C11, amended: the result is read off the lines strictly between the first
\* line that is '---' once stripped of surrounding whitespace and the next
\* such line; lines before the first and from the second on play no part; a
\* missing or unreadable file gives (None, None)
C11_RegionScan ==
    pc = "parsed" =>
        parse_result = IF file.state = "ok"
                       THEN RegionValues(file.lines, IsDelimiter)
                       ELSE <<None, None>>

\* C11: a date: line before the opening delimiter was passed over and the
\* title of the region was taken
C11_Witness ==
    /\ pc = "parsed"
    /\ file.state = "ok"
    /\ file.lines = <<"date: 2026-01-15", "---", "title: 'B'", "---">>
    /\ parse_result = <<"B", None>>

\* the lengths of the months of a common year
MonthLengths == <<31, 28, 31, 30, 31, 30, 31, 31, 30, 31, 30, 31>>

\* the last calendar day of month m of year y
LastDayOf(y, m) ==
    IF m = 2 /\ (y % 400 = 0 \/ (y % 4 = 0 /\ y % 100 # 0)) THEN 29 ELSE MonthLengths[m]

\* 'YYYY-MM-DD' of the first and of the last calendar day of month m of year y
MonthBounds(y, m) ==
    LET ym == ZeroPad(ToStr(y), 4) \o "-" \o ZeroPad(ToStr(m), 2) IN
    <<ym \o "-01", ym \o "-" \o ZeroPad(ToStr(LastDayOf(y, m)), 2)>>

\* the month before the one d lies in: December of the year before in January
MonthBefore(d) == IF d[2] = 1 THEN <<d[1] - 1, 12>> ELSE <<d[1], d[2] - 1>>

\* C12: once main is past l.544-554, with a month argument YYYY-MM start and end
\* are the first and the last calendar day of that month, and with none they
\* are the first and the last day of the month before the current date's
C12_DateRangeIsWholeMonth ==
    pc \notin {"validate", "dates"} =>
        <<start_date, end_date>> =
            IF args.month # None
            THEN MonthBounds(ToInt(SubSeq(args.month, 1, 4)), ToInt(SubSeq(args.month, 6, 7)))
            ELSE MonthBounds(MonthBefore(today)[1], MonthBefore(today)[2])

====
